---- MODULE Spec2Model ----
(***************************************************************************)
(* Model of the genre_finder backend (server/src/index.ts): the handler of *)
(* POST /api/recommend-genres as a state machine.  One request is followed *)
(* from its arrival to its response; every outbound call (catalog search,  *)
(* get-artist, top-tracks, generative completion, per-genre image lookup)  *)
(* is issued by one step and settled by a later one, with the outcome      *)
(* chosen by the environment.                                              *)
(*                                                                         *)
(* JavaScript values are tagged records:                                   *)
(*   [t |-> "undef"], [t |-> "null"], [t |-> "num", n |-> 5],              *)
(*   [t |-> "str", s |-> "rock"], [t |-> "bool", b |-> TRUE],              *)
(*   [t |-> "arr", a |-> <<...>>], [t |-> "obj", ...fields...].            *)
(***************************************************************************)
EXTENDS Integers, Sequences, FiniteSets, TLC

VARIABLES
    pc,           \* position of the handler: idle, trackSearch, getArtist,
                  \* artistSearch, topTracks, openai, enrich, done
    query,        \* req.body.query
    accessToken,  \* req.body.accessToken
    calls,        \* log of the outbound calls of the request, in issue order
    artist,       \* let artist (line 143)
    topTracks,    \* let topTracks (line 181)
    aiGenres,     \* let aiGenres (line 242)
    lookups,      \* per-genre promise of the enrichment map (line 277)
    responses,    \* responses written to res, in order
    reordered,    \* history: an image search settled before an earlier one
    spotifyApi,   \* refresh token held by the process-wide client (line 35)
    refresh,      \* the /api/refresh_token requests, each with its own state
    savePc,       \* position of the save-playlist handler: idle, create, add, done
    saveBody,     \* req.body of the save-playlist request
    saveCalls,    \* log of the outbound calls of the save-playlist request
    saveResponses \* responses written to res by the save-playlist handler

\* the state of the refresh_token requests and of the save-playlist request
refreshVars == <<refresh>>
saveVars == <<savePc, saveBody, saveCalls, saveResponses>>

vars == <<pc, query, accessToken, calls, artist, topTracks, aiGenres,
          lookups, responses, reordered, spotifyApi, refreshVars, saveVars>>

(***************************************************************************)
(* Bounds of the model.                                                    *)
(***************************************************************************)
MaxTopTracks == 6
MaxGenres == 2

\* lines 149, 159, 287: every catalog search is made with { limit: 1 }
SearchLimit == 1

Min(a, b) == IF a < b THEN a ELSE b

(***************************************************************************)
(* JavaScript values.                                                      *)
(***************************************************************************)
JUndef == [t |-> "undef"]
JNull == [t |-> "null"]
JNum(k) == [t |-> "num", n |-> k]
JStr(x) == [t |-> "str", s |-> x]
JBool(x) == [t |-> "bool", b |-> x]
JArr(x) == [t |-> "arr", a |-> x]
JEmptyObj == [t |-> "obj"]

\* ToBoolean of a JavaScript value: what `!v`, `v || d` and `if (v)` test.
Truthy(v) ==
    CASE v.t = "undef" -> FALSE
      [] v.t = "null" -> FALSE
      [] v.t = "num" -> v.n # 0
      [] v.t = "str" -> v.s # ""
      [] v.t = "bool" -> v.b
      [] OTHER -> TRUE

\* Array.isArray: the values that have a .map method.
IsArray(v) == v.t = "arr"

\* `code || d` on an optional status code; 0 stands for a missing statusCode.
NoStatus == 0
OrElse(code, d) == IF code = NoStatus THEN d ELSE code

(***************************************************************************)
(* Request inputs.                                                         *)
(***************************************************************************)
Queries == {JUndef, JStr(""), JStr("daft punk")}
Tokens == {JUndef, JStr(""), JStr("tokA")}

(***************************************************************************)
(* The catalog: artist records {id, name, genres, images}.                 *)
(***************************************************************************)
ArtistIds == {"a1", "a2"}

ArtistRecord(id) ==
    IF id = "a1"
    THEN [t |-> "artist", id |-> "a1", name |-> "Daft Punk",
          genres |-> <<"electronic", "house">>, images |-> <<"img_a1">>]
    ELSE [t |-> "artist", id |-> "a2", name |-> "Punk Daft",
          genres |-> <<>>, images |-> <<>>]

ArtistRecords == {ArtistRecord(id) : id \in ArtistIds}

\* track stubs returned by the track search: each carries artist references
TrackStubs == {[artists |-> <<"a1">>], [artists |-> <<"a2", "a1">>]}

SeqsUpTo(S, n) == UNION {[1..k -> S] : k \in 0..n}

\* bodies of a search call: body.tracks / body.artists may be absent
NoField == [t |-> "nofield"]
ItemsBody(s) == [t |-> "items", items |-> s]
TrackSearchBodies == {NoField} \cup {ItemsBody(s) : s \in SeqsUpTo(TrackStubs, SearchLimit)}
ArtistSearchBodies ==
    {NoField} \cup {ItemsBody(s) : s \in SeqsUpTo(ArtistRecords, SearchLimit)}

\* full track objects returned by the top-tracks call, in catalog order
\* (names are not in catalog order, so that a re-ranking would show)
CatalogTrack(i) == [id |-> i, name |-> (5 * i) % 11, spotify |-> i, preview_url |-> i]
TopTrackBodies == {[t |-> "tracks", tracks |-> [i \in 1..n |-> CatalogTrack(i)]]
                    : n \in 0..MaxTopTracks}

\* errors thrown by an outbound call; statusCode NoStatus is a transport
\* error that carries no status
ErrorStatuses == {NoStatus, 401, 429}

\* the outcome of an outbound call
Ok(b) == [ok |-> TRUE, body |-> b]
Err(code) == [ok |-> FALSE, statusCode |-> code]
Failures == {Err(c) : c \in ErrorStatuses}

\* a TypeError raised by the handler's own code: it has no statusCode
TypeError == Err(NoStatus)

(***************************************************************************)
(* What the generative model can answer.                                   *)
(***************************************************************************)
GenreObj(nm, as) == [t |-> "obj", name |-> nm, artists |-> as]
ArtistRef(nm) == [artistName |-> nm]

\* elements the model may put in its "genres" array
GenrePool ==
    { JNull,
      JNum(7),
      GenreObj("g1", <<ArtistRef("x1")>>),
      GenreObj("g2", <<ArtistRef("x2"), ArtistRef("x1")>>),
      GenreObj("g3", <<ArtistRef("")>>),
      [t |-> "obj", name |-> "g4"] }

\* values the model may give to the "genres" field
GenresValues ==
    {JNull, JNum(5), JStr("rock"), JEmptyObj}
        \cup {JArr(s) : s \in SeqsUpTo(GenrePool, MaxGenres)}

\* JSON documents the model may return
JsonValues ==
    {JNull, JNum(5), JEmptyObj} \cup {[t |-> "obj", genres |-> g] : g \in GenresValues}

NonJsonText == [t |-> "text", valid |-> FALSE]
JsonText(v) == [t |-> "text", valid |-> TRUE, value |-> v]

\* message.content of the completion: absent, null, empty, or a text
Contents == {JUndef, JNull, JStr(""), NonJsonText} \cup {JsonText(v) : v \in JsonValues}

CompletionOutcomes == {Err(NoStatus), Err(429)} \cup {Ok(c) : c \in Contents}

\* JSON.parse: throws on a text that is not JSON
JsonParse(text) ==
    IF text.valid THEN [ok |-> TRUE, value |-> text.value] ELSE [ok |-> FALSE]

\* v.genres for a parsed value that is not null
GenresOf(v) ==
    IF v.t = "obj" /\ "genres" \in DOMAIN v THEN v.genres ELSE JUndef

(***************************************************************************)
(* Responses.                                                              *)
(***************************************************************************)
ErrorResponse(code, msg) == [status |-> code, error |-> msg]
SuccessResponse(payload) == [status |-> 200, body |-> payload]

BadRequest == ErrorResponse(400, "Query is required")
Unauthorized == ErrorResponse(401, "Access Token is required")
CredentialExpired ==
    ErrorResponse(401, "Spotify access token might be expired. Please try refreshing.")
NotFound == ErrorResponse(404, "Artist or Track not found")

\* variant: the query check is left out
ValidateRequest_NoQueryCheck(q, tok) ==
    IF ~Truthy(tok) THEN [accept |-> FALSE, response |-> Unauthorized]
    ELSE [accept |-> TRUE]

\* variant: the token check is left out
ValidateRequest_NoTokenCheck(q, tok) ==
    IF ~Truthy(q) THEN [accept |-> FALSE, response |-> BadRequest]
    ELSE [accept |-> TRUE]

\* lines 136-137: the two parameter checks, in this order
ValidateRequest(q, tok) ==
    IF ~Truthy(q) THEN [accept |-> FALSE, response |-> BadRequest]
    ELSE IF ~Truthy(tok) THEN [accept |-> FALSE, response |-> Unauthorized]
    ELSE [accept |-> TRUE]

\* variant: a 401 is not told apart from the other upstream errors
SearchErrorResponse_No401Case(err) ==
    ErrorResponse(OrElse(err.statusCode, 503), "Failed to search Spotify")

\* variant: the upstream status is not propagated
SearchErrorResponse_Always503(err) ==
    IF err.statusCode = 401 THEN CredentialExpired
    ELSE ErrorResponse(503, "Failed to search Spotify")

\* lines 164-171: catch (spotifySearchError)
SearchErrorResponse(err) ==
    IF err.statusCode = 401 THEN CredentialExpired
    ELSE ErrorResponse(OrElse(err.statusCode, 503), "Failed to search Spotify")

\* variant: the message of the caught error is sent to the client
FatalResponse_ErrorMessage(err) ==
    ErrorResponse(OrElse(err.statusCode, 500), "aiGenres.map is not a function")

\* lines 320-324: the outer catch
FatalResponse(err) ==
    ErrorResponse(OrElse(err.statusCode, 500), "An unexpected server error occurred.")

(***************************************************************************)
(* Resolution.                                                             *)
(***************************************************************************)
\* line 150: trackSearch.body.tracks && trackSearch.body.tracks.items.length > 0
TrackFound(body) == body.t = "items" /\ Len(body.items) > 0

\* variant: the last artist of the track instead of the first
TrackArtistId_LastArtist(body) ==
    body.items[1].artists[Len(body.items[1].artists)]

\* line 152: trackSearch.body.tracks.items[0].artists[0].id
TrackArtistId(body) == body.items[1].artists[1]

\* variant: items.length > 1 instead of > 0
ArtistFromSearch_OffByOne(body) ==
    IF body.t = "items" /\ Len(body.items) > 1 THEN body.items[1] ELSE JNull

\* lines 160-162: the first artist of the artist search, or null
ArtistFromSearch(body) ==
    IF body.t = "items" /\ Len(body.items) > 0 THEN body.items[1] ELSE JNull

(***************************************************************************)
(* Top tracks, prompt, generation.                                         *)
(***************************************************************************)
\* lines 185-189: slice(0, 5).map(...)
TopTrackLimit == 5

\* variant: every returned track, not only the first five
ProjectTopTracks_NoSlice(body) ==
    [i \in 1..Len(body.tracks) |->
        [name |-> body.tracks[i].name,
         url |-> body.tracks[i].spotify,
         preview_url |-> body.tracks[i].preview_url]]

\* lines 185-189: the first five tracks, projected in the returned order
ProjectTopTracks(body) ==
    [i \in 1..Min(TopTrackLimit, Len(body.tracks)) |->
        [name |-> body.tracks[i].name,
         url |-> body.tracks[i].spotify,
         preview_url |-> body.tracks[i].preview_url]]

\* variant: the clause names the first genre only
BuildPrompt_FirstGenreOnly(a) ==
    [t |-> "prompt",
     subject |-> a.name,
     excludedGenres |-> IF Len(a.genres) > 0 THEN <<a.genres[1]>> ELSE <<>>,
     hasGenreClause |-> Len(a.genres) > 0,
     excludedArtist |-> a.name]

\* lines 197-239: the parts of the prompt that depend on the artist
BuildPrompt(a) ==
    [t |-> "prompt",
     subject |-> a.name,
     excludedGenres |-> IF Len(a.genres) > 0 THEN a.genres ELSE <<>>,
     hasGenreClause |-> Len(a.genres) > 0,
     excludedArtist |-> a.name]

EmptyArray == JArr(<<>>)

\* lines 255-266: aiGenres after a completion that returned
ParseGenres(content) ==
    IF ~Truthy(content) THEN EmptyArray
    ELSE LET p == JsonParse(content) IN
         IF ~p.ok THEN EmptyArray
         ELSE IF p.value.t = "null" THEN EmptyArray
         ELSE LET g == GenresOf(p.value) IN
              IF Truthy(g) THEN g ELSE EmptyArray

\* variant: a failed call falls back to example data instead of the empty list
GenerationOutput_ExampleOnError(outcome) ==
    IF outcome.ok THEN ParseGenres(outcome.body)
    ELSE JArr(<<GenreObj("g3", <<ArtistRef("")>>)>>)

\* lines 245-270: aiGenres after the generative call has settled
GenerationOutput(outcome) ==
    IF outcome.ok THEN ParseGenres(outcome.body) ELSE EmptyArray

(***************************************************************************)
(* Enrichment.                                                             *)
(***************************************************************************)
\* variant: the typeof test is left out
IsGenreObject_NoTypeCheck(g) == Truthy(g)

\* line 278: !genre || typeof genre !== 'object' is false
IsGenreObject(g) == Truthy(g) /\ g.t \in {"obj", "arr"}

\* lines 283-285: genre.artists?.[0] and its artistName, "" when the lookup
\* is not made
FirstArtistName(g) ==
    IF g.t = "obj" /\ "artists" \in DOMAIN g /\ Len(g.artists) > 0
    THEN g.artists[1].artistName
    ELSE ""

NeedsLookup(g) == IsGenreObject(g) /\ FirstArtistName(g) # ""

\* line 300: { ...genre, imageUrl }
WithImage(g, img) ==
    [f \in DOMAIN g \cup {"imageUrl"} |-> IF f = "imageUrl" THEN img ELSE g[f]]

\* variant: a field that the image objects do not have is read
ImageOf_WrongField(body) == JNull

\* lines 288-289: the image of the first search result, or null
ImageOf(body) ==
    IF body.t = "items" /\ Len(body.items) > 0 /\ Len(body.items[1].images) > 0
    THEN JStr(body.items[1].images[1])
    ELSE JNull

\* lines 287-299: imageUrl once the image search has settled; an error is
\* caught by the item's own catch
ImageAfterLookup(outcome) ==
    IF outcome.ok THEN ImageOf(outcome.body) ELSE JNull

\* line 303: filter(g => g !== null)
RECURSIVE DropNulls(_)
DropNulls(s) ==
    IF s = <<>> THEN <<>>
    ELSE IF Head(s).t = "null" THEN DropNulls(Tail(s))
    ELSE <<Head(s)>> \o DropNulls(Tail(s))

\* lines 305-308: the catch of the enrichment stage; aiGenres.map throws
\* when aiGenres has no map method
EnrichFallback(genres) ==
    IF IsArray(genres)
    THEN [ok |-> TRUE,
          value |-> [i \in 1..Len(genres.a) |-> WithImage(genres.a[i], JNull)]]
    ELSE [ok |-> FALSE, error |-> TypeError]

\* variant: the searched text is echoed instead of the artist's name
ResponseData_QueryAsName(a, tracks, enriched) ==
    [searchedArtist |->
        [name |-> query.s,
         imageUrl |-> IF Len(a.images) > 0 THEN JStr(a.images[1]) ELSE JUndef],
     topTracks |-> tracks,
     aiRecommendations |-> enriched]

\* lines 311-315: responseData
ResponseData(a, tracks, enriched) ==
    [searchedArtist |->
        [name |-> a.name,
         imageUrl |-> IF Len(a.images) > 0 THEN JStr(a.images[1]) ELSE JUndef],
     topTracks |-> tracks,
     aiRecommendations |-> enriched]

(***************************************************************************)
(* The log of outbound calls.                                              *)
(***************************************************************************)
NoBody == [t |-> "none"]
OpenAIKey == JStr("OPENAI_API_KEY")

Call(stage, op, arg, tok) ==
    [stage |-> stage, op |-> op, arg |-> arg, token |-> tok,
     st |-> "pending", code |-> NoStatus, body |-> NoBody]

Settled(c, outcome) ==
    IF outcome.ok
    THEN [c EXCEPT !.st = "ok", !.body = outcome.body]
    ELSE [c EXCEPT !.st = "error", !.code = outcome.statusCode]

\* variant: the calls go through the process-wide client and carry what it holds
ClientToken_SharedClient(tok) == JStr(spotifyApi)

\* lines 139-140: the request's own client carries the request's token
ClientToken(tok) == tok

\* the pending call of the sequential part of the handler is the last one
LastCall == Len(calls)
\* variant: the next stage starts without awaiting the call
SettleLast_NotAwaited(outcome) == calls

\* await: the pending call gets its outcome before the handler goes on
SettleLast(outcome) == [calls EXCEPT ![LastCall] = Settled(@, outcome)]

(***************************************************************************)
(* The /api/refresh_token requests the process may be serving, and the     *)
(* body of the save-playlist request before it has arrived.                *)
(***************************************************************************)
MaxRefreshRequests == 2
RefreshIds == 1..MaxRefreshRequests

\* a refresh request that has not arrived
NoRefresh == [pc |-> "idle", refreshToken |-> "", sent |-> "", response |-> NoBody]

NoSaveBody == [accessToken |-> JUndef, trackIds |-> JUndef, artistName |-> JUndef]

(***************************************************************************)
(* Initial state: no request received yet.                                 *)
(***************************************************************************)
Init ==
    /\ pc = "idle"
    /\ query = JUndef
    /\ accessToken = JUndef
    /\ calls = <<>>
    /\ artist = JNull
    /\ topTracks = <<>>
    /\ aiGenres = EmptyArray
    /\ lookups = <<>>
    /\ responses = <<>>
    /\ reordered = FALSE
    /\ spotifyApi = ""
    /\ refresh = [r \in RefreshIds |-> NoRefresh]
    /\ savePc = "idle"
    /\ saveBody = NoSaveBody
    /\ saveCalls = <<>>
    /\ saveResponses = <<>>

\* variant: the handler ends without writing the response
Respond_NoSend(r) ==
    /\ UNCHANGED responses
    /\ pc' = "done"

Respond(r) ==
    /\ responses' = Append(responses, r)
    /\ pc' = "done"

(***************************************************************************)
(* Lines 133-149: the request arrives, is validated, and the track search  *)
(* is issued with the request's own client.                                *)
(***************************************************************************)
Receive ==
    /\ pc = "idle"
    /\ \E q \in Queries, tok \in Tokens :
        /\ query' = q
        /\ accessToken' = tok
        /\ LET v == ValidateRequest(q, tok) IN
           IF ~v.accept
           THEN /\ Respond(v.response)
                /\ UNCHANGED calls
           ELSE /\ calls' = Append(calls, Call("resolve", "searchTracks", q, ClientToken(tok)))
                /\ pc' = "trackSearch"
                /\ UNCHANGED responses
    /\ UNCHANGED <<artist, topTracks, aiGenres, lookups, reordered, spotifyApi, refreshVars, saveVars>>

(***************************************************************************)
(* Lines 149-171: the track search settles.                                *)
(***************************************************************************)
SettleTrackSearch ==
    /\ pc = "trackSearch"
    /\ \E outcome \in Failures \cup {Ok(b) : b \in TrackSearchBodies} :
        IF ~outcome.ok
        THEN /\ calls' = SettleLast(outcome)
             /\ Respond(SearchErrorResponse(outcome))
        ELSE /\ UNCHANGED responses
             /\ IF TrackFound(outcome.body)
                THEN /\ calls' = Append(SettleLast(outcome),
                                   Call("resolve", "getArtist",
                                        JStr(TrackArtistId(outcome.body)),
                                        ClientToken(accessToken)))
                     /\ pc' = "getArtist"
                ELSE /\ calls' = Append(SettleLast(outcome),
                                   Call("resolve", "searchArtists", query,
                                        ClientToken(accessToken)))
                     /\ pc' = "artistSearch"
    /\ UNCHANGED <<query, accessToken, artist, topTracks, aiGenres, lookups, reordered, spotifyApi, refreshVars, saveVars>>

(***************************************************************************)
(* Lines 173-184: with the resolution over, a missing artist ends the      *)
(* request with 404, otherwise the top-track lookup is issued.             *)
(***************************************************************************)
\* variant: the check of line 174 never fires
ArtistMissing_Never(a) == FALSE

\* line 174: !artist
ArtistMissing(a) == ~Truthy(a)

AfterResolution(a, settledCalls) ==
    /\ artist' = a
    /\ IF ArtistMissing(a)
       THEN /\ calls' = settledCalls
            /\ Respond(NotFound)
       ELSE IF a.t = "null"
       THEN \* line 178: artist.name of null throws, caught by the outer catch
            /\ calls' = settledCalls
            /\ Respond(FatalResponse(TypeError))
       ELSE /\ calls' = Append(settledCalls,
                          Call("top", "getArtistTopTracks", JStr(a.id),
                               ClientToken(accessToken)))
            /\ pc' = "topTracks"
            /\ UNCHANGED responses

(***************************************************************************)
(* Lines 154-155, 164-171: get-artist settles.                             *)
(***************************************************************************)
SettleGetArtist ==
    /\ pc = "getArtist"
    /\ \E outcome \in Failures \cup {Ok(ArtistRecord(calls[LastCall].arg.s))} :
        IF ~outcome.ok
        THEN /\ calls' = SettleLast(outcome)
             /\ Respond(SearchErrorResponse(outcome))
             /\ UNCHANGED artist
        ELSE AfterResolution(outcome.body, SettleLast(outcome))
    /\ UNCHANGED <<query, accessToken, topTracks, aiGenres, lookups, reordered, spotifyApi, refreshVars, saveVars>>

(***************************************************************************)
(* Lines 159-171: the artist search of the fallback path settles.          *)
(***************************************************************************)
SettleArtistSearch ==
    /\ pc = "artistSearch"
    /\ \E outcome \in Failures \cup {Ok(b) : b \in ArtistSearchBodies} :
        IF ~outcome.ok
        THEN /\ calls' = SettleLast(outcome)
             /\ Respond(SearchErrorResponse(outcome))
             /\ UNCHANGED artist
        ELSE AfterResolution(ArtistFromSearch(outcome.body), SettleLast(outcome))
    /\ UNCHANGED <<query, accessToken, topTracks, aiGenres, lookups, reordered, spotifyApi, refreshVars, saveVars>>

(***************************************************************************)
(* Lines 181-194: topTracks after the top-track lookup has settled; any    *)
(* error is caught and leaves the empty list.                              *)
(***************************************************************************)
TopTracksAfter(outcome) ==
    IF outcome.ok THEN ProjectTopTracks(outcome.body) ELSE <<>>

(***************************************************************************)
(* Lines 184-253: the top-track lookup settles, the prompt is built and    *)
(* the generative call is issued.                                          *)
(***************************************************************************)
SettleTopTracks ==
    /\ pc = "topTracks"
    /\ \E outcome \in Failures \cup {Ok(b) : b \in TopTrackBodies} :
        /\ topTracks' = TopTracksAfter(outcome)
        /\ calls' = Append(SettleLast(outcome),
                      Call("generate", "chatCompletion", BuildPrompt(artist), OpenAIKey))
    /\ pc' = "openai"
    /\ UNCHANGED <<query, accessToken, artist, aiGenres, lookups, responses, reordered, spotifyApi, refreshVars, saveVars>>

(***************************************************************************)
(* Lines 276-302: the map of the enrichment stage.  Every async callback   *)
(* runs up to its first await, so the image searches are issued in input   *)
(* order before any of them settles; a callback that awaits nothing is     *)
(* settled at once.                                                        *)
(***************************************************************************)
LookupRank(genres, i) == Cardinality({j \in 1..i : NeedsLookup(genres[j])})

\* variant: an image search is issued for every entry, twice for an entry
\* that names its first artist
LookupCalls_Retried(genres, tok) ==
    [k \in 1..(Len(genres) + LookupRank(genres, Len(genres))) |->
        Call("enrich", "searchArtists",
             JStr(FirstArtistName(genres[((k - 1) % Len(genres)) + 1])), tok)]

LookupCalls(genres, tok) ==
    [k \in 1..LookupRank(genres, Len(genres)) |->
        LET i == CHOOSE j \in 1..Len(genres) :
                    NeedsLookup(genres[j]) /\ LookupRank(genres, j) = k
        IN Call("enrich", "searchArtists", JStr(FirstArtistName(genres[i])), tok)]

StartLookups(genres, base) ==
    [i \in 1..Len(genres) |->
        IF ~IsGenreObject(genres[i])
        THEN [st |-> "settled", value |-> JNull, call |-> 0]
        ELSE IF NeedsLookup(genres[i])
        THEN [st |-> "pending", value |-> JNull, call |-> base + LookupRank(genres, i)]
        ELSE [st |-> "settled", value |-> WithImage(genres[i], JNull), call |-> 0]]

\* line 277: (aiGenres || [])
MapTarget(genres) == IF Truthy(genres) THEN genres ELSE EmptyArray

(***************************************************************************)
(* Lines 247-308: the generative call settles, aiGenres is computed and    *)
(* the enrichment stage starts.  (aiGenres || []).map throws a TypeError   *)
(* when aiGenres is not an array; the stage's catch then runs its fallback,*)
(* and what the fallback throws reaches the outer catch.                   *)
(***************************************************************************)
SettleCompletion ==
    /\ pc = "openai"
    /\ \E outcome \in CompletionOutcomes :
        LET genres == GenerationOutput(outcome)
            settledCalls == SettleLast(outcome)
        IN /\ aiGenres' = genres
           /\ IF IsArray(MapTarget(genres))
              THEN /\ lookups' = StartLookups(MapTarget(genres).a, Len(settledCalls))
                   /\ calls' = settledCalls \o LookupCalls(MapTarget(genres).a,
                                                            ClientToken(accessToken))
                   /\ pc' = "enrich"
                   /\ UNCHANGED responses
              ELSE /\ calls' = settledCalls
                   /\ UNCHANGED lookups
                   /\ LET fb == EnrichFallback(genres) IN
                      IF fb.ok
                      THEN Respond(SuccessResponse(ResponseData(artist, topTracks, fb.value)))
                      ELSE Respond(FatalResponse(fb.error))
    /\ UNCHANGED <<query, accessToken, artist, topTracks, reordered, spotifyApi, refreshVars, saveVars>>

\* variant: results are collected in completion order
ResultSlot_CompletionOrder(i) ==
    1 + Cardinality({j \in DOMAIN lookups : lookups[j].st = "settled"})

\* line 276: Promise.all puts the result of the i-th promise at index i
ResultSlot(i) == i

(***************************************************************************)
(* Lines 287-300: one image search settles, in any order.                  *)
(***************************************************************************)
SettleImageLookup ==
    /\ pc = "enrich"
    /\ \E i \in DOMAIN lookups :
        /\ lookups[i].st = "pending"
        /\ \E outcome \in Failures \cup {Ok(b) : b \in ArtistSearchBodies} :
            /\ calls' = [calls EXCEPT ![lookups[i].call] = Settled(@, outcome)]
            /\ lookups' = [lookups EXCEPT
                             ![i].st = "settled",
                             ![ResultSlot(i)].value =
                                 WithImage(MapTarget(aiGenres).a[i],
                                           ImageAfterLookup(outcome))]
        /\ reordered' = (reordered \/ \E j \in 1..(i - 1) : lookups[j].st = "pending")
    /\ UNCHANGED <<pc, query, accessToken, artist, topTracks, aiGenres, responses,
                   spotifyApi, refreshVars, saveVars>>

(***************************************************************************)
(* Lines 276, 303-318: Promise.all resolves once every callback has        *)
(* settled; nulls are dropped and the response is sent.                    *)
(***************************************************************************)
EnrichedGenres == DropNulls([i \in DOMAIN lookups |-> lookups[i].value])

\* variant: the response is sent as soon as one callback has settled
JoinEnrichment_AnySettled ==
    /\ pc = "enrich"
    /\ \E i \in DOMAIN lookups : lookups[i].st = "settled"
    /\ Respond(SuccessResponse(ResponseData(artist, topTracks, EnrichedGenres)))
    /\ UNCHANGED <<query, accessToken, calls, artist, topTracks, aiGenres, lookups,
                   reordered, spotifyApi, refreshVars, saveVars>>

JoinEnrichment ==
    /\ pc = "enrich"
    /\ \A i \in DOMAIN lookups : lookups[i].st = "settled"
    /\ Respond(SuccessResponse(ResponseData(artist, topTracks, EnrichedGenres)))
    /\ UNCHANGED <<query, accessToken, calls, artist, topTracks, aiGenres, lookups,
                   reordered, spotifyApi, refreshVars, saveVars>>

(***************************************************************************)
(* Lines 103-127: POST /api/refresh_token, served by the same process.  It *)
(* stores the caller's refresh token in the process-wide client (line 110) *)
(* and clears it when the refresh has settled (lines 118, 125).  Only its  *)
(* effect on the process-wide client is kept.                              *)
(***************************************************************************)
RefreshTokens == {"", "rt1"}

RefreshTokenReceive ==
    /\ \E refreshToken \in RefreshTokens :
        /\ refreshToken # ""
        /\ spotifyApi' = refreshToken
    /\ UNCHANGED <<pc, query, accessToken, calls, artist, topTracks, aiGenres,
                   lookups, responses, reordered, refreshVars, saveVars>>

RefreshTokenSettle ==
    /\ spotifyApi # ""
    /\ spotifyApi' = ""
    /\ UNCHANGED <<pc, query, accessToken, calls, artist, topTracks, aiGenres,
                   lookups, responses, reordered, refreshVars, saveVars>>

(***************************************************************************)
(* Lines 103-127 request by request.  refreshAccessToken builds its        *)
(* upstream request from the credentials the process-wide client holds     *)
(* when it is called, which is right after setRefreshToken (lines 110-113, *)
(* no await in between); the answer to that call is what the handler       *)
(* returns (lines 114-122).                                                *)
(***************************************************************************)
RefreshBodyTokens == RefreshTokens \cup {"rt2"}

\* the access token the upstream issues for a refresh token
AccessTokenFor(rt) == [t |-> "access", for |-> rt]

\* variant: the upstream request is built before the client got the token
CredentialsAtCall_BeforeSet(before, after) == before

\* lines 110-113: the client as refreshAccessToken sees it
CredentialsAtCall(before, after) == after

\* lines 105-107
RefreshBadRequest == ErrorResponse(400, "Refresh token is required")

\* lines 118-122: res.json({ accessToken, expiresIn })
RefreshSuccess(body) ==
    [status |-> 200, accessToken |-> body.access_token, expiresIn |-> body.expires_in]

\* lines 124-128: the status of the error, or 400
RefreshErrorResponse(err) ==
    ErrorResponse(OrElse(err.statusCode, 400), "Could not refresh access token")

RefreshReceive(r) ==
    /\ refresh[r].pc = "idle"
    /\ \E refreshToken \in RefreshBodyTokens :
        IF refreshToken = ""
        THEN /\ refresh' = [refresh EXCEPT ![r].pc = "done",
                                           ![r].response = RefreshBadRequest]
             /\ UNCHANGED spotifyApi
        ELSE /\ spotifyApi' = refreshToken
             /\ refresh' = [refresh EXCEPT
                              ![r].pc = "upstream",
                              ![r].refreshToken = refreshToken,
                              ![r].sent = CredentialsAtCall(spotifyApi, refreshToken)]
    /\ UNCHANGED <<pc, query, accessToken, calls, artist, topTracks, aiGenres,
                   lookups, responses, reordered, saveVars>>

\* what the upstream answers to a refresh call that carried the token sent
RefreshOutcomes(sent) ==
    Failures \cup {Ok([access_token |-> AccessTokenFor(sent), expires_in |-> 3600])}

RefreshSettle(r) ==
    /\ refresh[r].pc = "upstream"
    /\ \E outcome \in RefreshOutcomes(refresh[r].sent) :
        refresh' = [refresh EXCEPT
                      ![r].pc = "done",
                      ![r].response = IF outcome.ok THEN RefreshSuccess(outcome.body)
                                      ELSE RefreshErrorResponse(outcome)]
    /\ spotifyApi' = ""
    /\ UNCHANGED <<pc, query, accessToken, calls, artist, topTracks, aiGenres,
                   lookups, responses, reordered, saveVars>>

NextRefresh == \E r \in RefreshIds : RefreshReceive(r) \/ RefreshSettle(r)

SpecRefresh == Init /\ [][NextRefresh]_vars

(***************************************************************************)
(* POST /api/save-playlist (lines 328-364): what a request may carry.      *)
(***************************************************************************)
MaxTrackIds == 201

\* line 351
ChunkSize == 100

\* the text of the k-th track id, a blank text, and the elements that are
\* not strings
IdStr(k) == [t |-> "str", id |-> k]
BlankStr == JStr("  ")

\* a trackIds array of n elements; with every > 0, each every-th element
\* is not a usable id (a number or a blank text, in turn)
TrackIdList(n, every) ==
    [k \in 1..n |->
        IF every > 0 /\ k % every = 0
        THEN (IF (k \div every) % 2 = 0 THEN JNum(7) ELSE BlankStr)
        ELSE IdStr(k)]

TrackIdLengths ==
    {0, 1, 2, ChunkSize - 1, ChunkSize, ChunkSize + 1, 2 * ChunkSize, MaxTrackIds}

SaveTrackIds ==
    {JUndef, JStr("abc")}
        \cup {JArr(TrackIdList(n, every)) : n \in TrackIdLengths, every \in {0, 1, 3}}

SaveTokens == {JUndef, JStr("tokB")}
ArtistNames == {JUndef, JStr("Daft Punk")}

SaveBodies ==
    {[accessToken |-> tok, trackIds |-> ids, artistName |-> nm] :
        tok \in SaveTokens, ids \in SaveTrackIds, nm \in ArtistNames}

(***************************************************************************)
(* The handler's own computations.                                         *)
(***************************************************************************)
\* line 330: the condition of the parameter check
SaveParamsMissing(body) ==
    ~Truthy(body.accessToken) \/ ~Truthy(body.trackIds) \/ ~Truthy(body.artistName)

\* line 330: the block of the check is empty, so the handler goes on in
\* either case
SaveValidate(body) ==
    IF SaveParamsMissing(body) THEN [accept |-> TRUE] ELSE [accept |-> TRUE]

\* variant: one client for all requests, holding the token set last by the
\* recommend-genres handler
SaveClientToken_SharedClient(tok) == accessToken

\* lines 333-334: the request's own client carries the request's token
SaveClientToken(tok) == tok

\* line 337: `${artistName} inspired by Genre Finder`
PlaylistName(nm) == [t |-> "playlistName", artistName |-> nm]

\* line 346: typeof id === 'string' && id.trim() !== ''
IsValidTrackId(x) == x.t = "str" /\ x \notin {JStr(""), BlankStr}

\* line 347: `spotify:track:${id}`
TrackUri(x) == [uri |-> "spotify:track", id |-> x.id]

\* line 346: trackIds.filter(...)
FilterValid(ids) == SelectSeq(ids, IsValidTrackId)

\* lines 344-347: spotifyTrackUris, <<>> when the add-tracks block is skipped
SpotifyTrackUris(trackIds) ==
    IF IsArray(trackIds) /\ Len(trackIds.a) > 0
    THEN LET valid == FilterValid(trackIds.a)
         IN [k \in 1..Len(valid) |-> TrackUri(valid[k])]
    ELSE <<>>

\* variant: the slice ends one element too far
Chunk_OneTooFar(uris, i) == SubSeq(uris, i + 1, Min(i + ChunkSize + 1, Len(uris)))

\* line 353: spotifyTrackUris.slice(i, i + chunkSize), i counted from 0
Chunk(uris, i) == SubSeq(uris, i + 1, Min(i + ChunkSize, Len(uris)))

\* line 361
SaveSuccess(playlistUrl) ==
    [status |-> 200, message |-> "Playlist created successfully!",
     playlistUrl |-> playlistUrl]

\* line 363: the catch block is empty: nothing is sent for the error
SaveCatch(err) == <<>>

\* the playlist the catalog creates
PlaylistBody == [id |-> "p1", external_urls |-> [spotify |-> "url_p1"]]
SnapshotBody == [snapshot_id |-> "s1"]

SaveCall(op, arg, tok) ==
    [op |-> op, arg |-> arg, token |-> tok,
     st |-> "pending", code |-> NoStatus, body |-> NoBody]

SaveSettleLast(outcome) ==
    [saveCalls EXCEPT ![Len(saveCalls)] = Settled(@, outcome)]

\* line 352: the loop variable i, from the add-tracks calls made so far
AddCallsMade(log) == Cardinality({k \in DOMAIN log : log[k].op = "addTracksToPlaylist"})
LoopIndex(log) == ChunkSize * AddCallsMade(log)

SaveRespond(rs) ==
    /\ saveResponses' = saveResponses \o rs
    /\ savePc' = "done"

(***************************************************************************)
(* Lines 328-339: the request arrives and the playlist creation is issued. *)
(***************************************************************************)
SaveReceiveFrom(bodies) ==
    /\ savePc = "idle"
    /\ \E body \in bodies :
        /\ saveBody' = body
        /\ SaveValidate(body).accept
        /\ saveCalls' = Append(saveCalls,
                          SaveCall("createPlaylist", PlaylistName(body.artistName),
                                   SaveClientToken(body.accessToken)))
    /\ savePc' = "create"
    /\ UNCHANGED <<pc, query, accessToken, calls, artist, topTracks, aiGenres,
                   lookups, responses, reordered, spotifyApi, refreshVars,
                   saveResponses>>

SaveReceive == SaveReceiveFrom(SaveBodies)

\* lines 352-361: the next chunk is sent, or the loop is over and the
\* success is answered
ContinueSave(settledCalls) ==
    LET uris == SpotifyTrackUris(saveBody.trackIds)
        i == LoopIndex(settledCalls)
        playlist == settledCalls[1].body
    IN IF i < Len(uris)
       THEN /\ saveCalls' = Append(settledCalls,
                              SaveCall("addTracksToPlaylist",
                                       [playlistId |-> playlist.id, chunk |-> Chunk(uris, i)],
                                       SaveClientToken(saveBody.accessToken)))
            /\ savePc' = "add"
            /\ UNCHANGED saveResponses
       ELSE /\ saveCalls' = settledCalls
            /\ SaveRespond(<<SaveSuccess(playlist.external_urls.spotify)>>)

(***************************************************************************)
(* Lines 339-363: the playlist creation settles.                           *)
(***************************************************************************)
SaveSettleCreate ==
    /\ savePc = "create"
    /\ \E outcome \in Failures \cup {Ok(PlaylistBody)} :
        IF outcome.ok
        THEN ContinueSave(SaveSettleLast(outcome))
        ELSE /\ saveCalls' = SaveSettleLast(outcome)
             /\ SaveRespond(SaveCatch(outcome))
    /\ UNCHANGED <<pc, query, accessToken, calls, artist, topTracks, aiGenres,
                   lookups, responses, reordered, spotifyApi, refreshVars, saveBody>>

(***************************************************************************)
(* Lines 352-363: an add-tracks call settles.                              *)
(***************************************************************************)
SaveSettleAdd ==
    /\ savePc = "add"
    /\ \E outcome \in Failures \cup {Ok(SnapshotBody)} :
        IF outcome.ok
        THEN ContinueSave(SaveSettleLast(outcome))
        ELSE /\ saveCalls' = SaveSettleLast(outcome)
             /\ SaveRespond(SaveCatch(outcome))
    /\ UNCHANGED <<pc, query, accessToken, calls, artist, topTracks, aiGenres,
                   lookups, responses, reordered, spotifyApi, refreshVars, saveBody>>

NextPlaylist ==
    \/ SaveReceive
    \/ SaveSettleCreate
    \/ SaveSettleAdd

SpecPlaylist == Init /\ [][NextPlaylist]_vars

Next ==
    \/ Receive
    \/ SettleTrackSearch
    \/ SettleGetArtist
    \/ SettleArtistSearch
    \/ SettleTopTracks
    \/ SettleCompletion
    \/ SettleImageLookup
    \/ JoinEnrichment

Spec == Init /\ [][Next]_vars

\* the same request when every upstream call it issues settles, and the
\* continuation of a settled await is run
SpecSettling == Init /\ [][Next]_vars /\ WF_vars(Next)

\* the request served while the process also serves refresh requests
NextShared ==
    \/ Next
    \/ RefreshTokenReceive
    \/ RefreshTokenSettle

SpecShared == Init /\ [][NextShared]_vars

(***************************************************************************)
(* A recommend-genres request and a save-playlist request served by the    *)
(* process at the same time, their steps interleaved in every way.  The    *)
(* save-playlist request carries its own token and two track ids.          *)
(***************************************************************************)
ConcurrentSaveBodies ==
    {[accessToken |-> JStr("tokB"),
      trackIds |-> JArr(TrackIdList(2, 0)),
      artistName |-> JStr("Daft Punk")]}

NextConcurrent ==
    \/ Next
    \/ SaveReceiveFrom(ConcurrentSaveBodies)
    \/ SaveSettleCreate
    \/ SaveSettleAdd

SpecConcurrent == Init /\ [][NextConcurrent]_vars

(***************************************************************************)
(* Vocabulary of the properties.                                           *)
(***************************************************************************)
Done == pc = "done"
Received == pc # "idle"

\* the request was answered once, with r
AnsweredWith(r) == Done /\ responses = <<r>>

\* the request was answered once, with a success carrying a ResponsePayload
AnsweredWithPayload ==
    /\ Done
    /\ Len(responses) = 1
    /\ responses[1].status = 200
    /\ "body" \in DOMAIN responses[1]

CallsWhere(stage, op) ==
    {i \in DOMAIN calls : calls[i].stage = stage /\ calls[i].op = op}
StageCalls(stage) == {i \in DOMAIN calls : calls[i].stage = stage}

\* the track search of the request has succeeded, with / without a track
TrackSearchOk == Len(calls) >= 1 /\ calls[1].st = "ok"
TrackSearchHit ==
    TrackSearchOk /\ calls[1].body.t = "items" /\ Len(calls[1].body.items) >= 1
TrackSearchMiss == TrackSearchOk /\ ~TrackSearchHit

\* a call of the resolution path reported status 401 / failed otherwise
Failed401(i) == calls[i].st = "error" /\ calls[i].code = 401
FailedOther(i) == calls[i].st = "error" /\ calls[i].code # 401

(***************************************************************************)
(* C1: a recommend-genres request whose query is empty or missing is       *)
(* answered with BadRequest (400) and no upstream call is ever issued for  *)
(* it.                                                                     *)
(***************************************************************************)
C1_EmptyQueryBadRequest ==
    (Received /\ ~Truthy(query)) => (AnsweredWith(BadRequest) /\ calls = <<>>)

C1_Witness ==
    /\ Done
    /\ query = JStr("")
    /\ accessToken = JStr("tokA")
    /\ responses = <<BadRequest>>

(***************************************************************************)
(* C2: a request with a non-empty query and an empty or missing            *)
(* accessToken is answered with Unauthorized (401) and no upstream call is *)
(* issued for it.                                                          *)
(***************************************************************************)
C2_EmptyTokenUnauthorized ==
    (Received /\ Truthy(query) /\ ~Truthy(accessToken))
        => (AnsweredWith(Unauthorized) /\ calls = <<>>)

C2_Witness ==
    /\ Done
    /\ query = JStr("daft punk")
    /\ accessToken = JStr("")
    /\ responses = <<Unauthorized>>

(***************************************************************************)
(* C3: track-first resolution.  Whenever the track search returned a       *)
(* track, the next call is get-artist for the id of the first artist of    *)
(* the first track, the artist search is never issued for resolution, and  *)
(* once get-artist has succeeded the resolved artist is the record it      *)
(* returned.                                                               *)
(***************************************************************************)
C3_TrackFirst ==
    TrackSearchHit =>
        /\ CallsWhere("resolve", "searchArtists") = {}
        /\ Len(calls) >= 2
        /\ calls[2].stage = "resolve"
        /\ calls[2].op = "getArtist"
        /\ calls[2].arg = JStr(calls[1].body.items[1].artists[1])
        /\ CallsWhere("resolve", "getArtist") = {2}
        /\ IF calls[2].st = "ok"
           THEN /\ artist = calls[2].body
                /\ artist.id = calls[1].body.items[1].artists[1]
           ELSE artist = JNull

\* the track has two artists and the request ended with the first one
C3_Witness ==
    /\ AnsweredWithPayload
    /\ TrackSearchHit
    /\ Len(calls[1].body.items[1].artists) = 2
    /\ artist = ArtistRecord("a2")
    /\ responses[1].body.searchedArtist.name = "Punk Daft"

(***************************************************************************)
(* C4: artist fallback.  When the track search succeeded without a track,  *)
(* exactly one artist search is made for resolution, with the same query,  *)
(* and if it returns an artist the resolved artist is its first result;    *)
(* the resolution artist search is issued in no other case.                *)
(***************************************************************************)
C4_ArtistFallback ==
    /\ TrackSearchMiss =>
        /\ CallsWhere("resolve", "searchArtists") = {2}
        /\ calls[2].arg = query
        /\ CallsWhere("resolve", "getArtist") = {}
        /\ (calls[2].st = "ok" /\ calls[2].body.t = "items"
                /\ Len(calls[2].body.items) >= 1)
              => artist = calls[2].body.items[1]
    /\ CallsWhere("resolve", "searchArtists") # {} => TrackSearchMiss

C4_Witness ==
    /\ AnsweredWithPayload
    /\ TrackSearchMiss
    /\ calls[2].op = "searchArtists"
    /\ calls[2].st = "ok"
    /\ artist = ArtistRecord("a1")
    /\ responses[1].body.searchedArtist.name = "Daft Punk"

(***************************************************************************)
(* C5: when the track search and the artist search both succeed with no    *)
(* result, the request is answered with NotFound (404) and no top-track    *)
(* lookup, generative call or enrichment lookup is issued.                 *)
(***************************************************************************)
ArtistSearchEmpty ==
    /\ TrackSearchMiss
    /\ Len(calls) >= 2
    /\ calls[2].st = "ok"
    /\ ~(calls[2].body.t = "items" /\ Len(calls[2].body.items) >= 1)

C5_NotFound ==
    ArtistSearchEmpty =>
        /\ AnsweredWith(NotFound)
        /\ responses[1].status = 404
        /\ Len(calls) = 2
        /\ StageCalls("top") \cup StageCalls("generate") \cup StageCalls("enrich") = {}

C5_Witness ==
    /\ ArtistSearchEmpty
    /\ calls[1].body = ItemsBody(<<>>)
    /\ calls[2].body = ItemsBody(<<>>)
    /\ responses = <<NotFound>>

(***************************************************************************)
(* C6, as stated: the request is answered with CredentialExpired (401)     *)
(* whenever any catalog call made for it reported status 401, the          *)
(* top-track lookup and the per-genre image searches included.  It is      *)
(* stated for the requests whose generated genres are a list, so that a    *)
(* violation shows the local recovery of the 401 and nothing else.         *)
(***************************************************************************)
CatalogCalls == {i \in DOMAIN calls : calls[i].op # "chatCompletion"}

C6_AnyCatalog401Expired ==
    (Done /\ IsArray(aiGenres) /\ \E i \in CatalogCalls : Failed401(i))
        => AnsweredWith(CredentialExpired)

(***************************************************************************)
(* C6, amended: the request is answered with CredentialExpired (401)       *)
(* exactly when a catalog call of the resolution path (track search,       *)
(* get-artist, resolution artist search) reported status 401; a 401 of the *)
(* top-track lookup or of an image search is recovered locally and never   *)
(* produces CredentialExpired.                                             *)
(***************************************************************************)
C6_Resolution401Expired ==
    /\ (\E i \in StageCalls("resolve") : Failed401(i)) => AnsweredWith(CredentialExpired)
    /\ (Done /\ \A i \in StageCalls("resolve") : ~Failed401(i))
          => CredentialExpired \notin {responses[k] : k \in DOMAIN responses}

\* get-artist reported 401 and the request ended with CredentialExpired
C6_Witness ==
    /\ Len(calls) = 2
    /\ calls[2].op = "getArtist"
    /\ Failed401(2)
    /\ responses = <<CredentialExpired>>

\* a top-track 401 and an image-search 401 were both recovered locally
C6_SoftWitness ==
    /\ AnsweredWithPayload
    /\ \E i \in StageCalls("top") : Failed401(i)
    /\ \E i \in StageCalls("enrich") : Failed401(i)

(***************************************************************************)
(* C7: when a catalog call of the resolution path fails with an error that *)
(* is not a 401, the request is answered with UpstreamUnavailable: the     *)
(* status is the upstream status code when the error has one and 503       *)
(* otherwise, and no top-track, generative or enrichment call follows.     *)
(***************************************************************************)
C7_UpstreamUnavailable ==
    \A i \in StageCalls("resolve") :
        FailedOther(i) =>
            /\ Done
            /\ Len(responses) = 1
            /\ responses[1].status = (IF calls[i].code = 0 THEN 503 ELSE calls[i].code)
            /\ "error" \in DOMAIN responses[1]
            /\ responses[1].error = "Failed to search Spotify"
            /\ i = Len(calls)
            /\ StageCalls("top") \cup StageCalls("generate") \cup StageCalls("enrich") = {}

\* the fallback artist search failed with 429, which was propagated
C7_Witness ==
    /\ Done
    /\ Len(calls) = 2
    /\ calls[2].op = "searchArtists"
    /\ calls[2].st = "error"
    /\ calls[2].code = 429
    /\ responses = <<ErrorResponse(429, "Failed to search Spotify")>>

\* the track search failed without a status and was answered with 503
C7_Witness503 ==
    /\ Done
    /\ Len(calls) = 1
    /\ calls[1].st = "error"
    /\ calls[1].code = NoStatus
    /\ responses = <<ErrorResponse(503, "Failed to search Spotify")>>

(***************************************************************************)
(* C8, as stated: once an artist has been resolved, the request always     *)
(* ends with a success response carrying a ResponsePayload, whatever the   *)
(* outcomes of the top-track lookup, the generative call and the image     *)
(* searches.                                                               *)
(***************************************************************************)
C8_ResolvedAlwaysSucceeds ==
    (Done /\ Truthy(artist)) => AnsweredWithPayload

(***************************************************************************)
(* C9, as stated: for every outcome of the generative call the value       *)
(* handed to the enrichment stage is a sequence, and the generation stage  *)
(* does not end the request.                                               *)
(***************************************************************************)
GenerationSettled ==
    \E i \in StageCalls("generate") : calls[i].st # "pending"

C9_GenerationYieldsSequence ==
    GenerationSettled => IsArray(aiGenres)

(***************************************************************************)
(* C10: generation soft failure.  If the generative call fails (timeout,   *)
(* invocation error) or returns text that is not JSON, the request is      *)
(* answered with a success whose aiRecommendations is empty, whose         *)
(* searchedArtist is the resolved artist and whose topTracks are the       *)
(* first tracks of the catalog's answer; no error response is sent.        *)
(***************************************************************************)
GenerationFailed ==
    \E i \in StageCalls("generate") :
        \/ calls[i].st = "error"
        \/ calls[i].st = "ok" /\ calls[i].body = NonJsonText

C10_GenerationSoftFailure ==
    GenerationFailed =>
        /\ aiGenres = EmptyArray
        /\ StageCalls("enrich") = {}
        /\ pc \in {"enrich", "done"}
        /\ Done =>
            /\ AnsweredWithPayload
            /\ responses[1].body.aiRecommendations = <<>>
            /\ responses[1].body.searchedArtist.name = artist.name
            /\ \A i \in StageCalls("top") :
                 LET got == responses[1].body.topTracks IN
                 IF calls[i].st = "ok"
                 THEN /\ Len(got) = Min(5, Len(calls[i].body.tracks))
                      /\ \A k \in DOMAIN got :
                            /\ got[k].name = calls[i].body.tracks[k].name
                            /\ got[k].url = calls[i].body.tracks[k].spotify
                 ELSE got = <<>>

\* the model answered with non-JSON text; the response still carries the
\* artist and its top tracks
C10_Witness ==
    /\ AnsweredWithPayload
    /\ \E i \in StageCalls("generate") : calls[i].st = "ok" /\ calls[i].body = NonJsonText
    /\ responses[1].body.aiRecommendations = <<>>
    /\ Len(responses[1].body.topTracks) = 5
    /\ responses[1].body.searchedArtist.name = "Daft Punk"

\* the generative call itself failed
C10_WitnessError ==
    /\ AnsweredWithPayload
    /\ \E i \in StageCalls("generate") : calls[i].st = "error"
    /\ responses[1].body.aiRecommendations = <<>>

(***************************************************************************)
(* C11, as stated: if the top-track lookup fails with any error, an auth   *)
(* error included, topTracks is the empty sequence and the request goes on *)
(* through generation, enrichment and assembly to a success response.      *)
(***************************************************************************)
TopTrackFailed == \E i \in StageCalls("top") : calls[i].st = "error"

C11_TopTrackSoftFailure ==
    TopTrackFailed =>
        /\ topTracks = <<>>
        /\ StageCalls("generate") # {}
        /\ Done => (AnsweredWithPayload /\ responses[1].body.topTracks = <<>>)

(***************************************************************************)
(* Vocabulary of the enrichment properties.                                *)
(***************************************************************************)
\* the genres whose callback made an image search, and the call it made
WithLookup == {i \in DOMAIN lookups : lookups[i].call # 0}
LookupCall(i) == calls[lookups[i].call]

LookupFailed(i) == LookupCall(i).st = "error"
LookupFoundImage(i) ==
    /\ LookupCall(i).st = "ok"
    /\ LookupCall(i).body.t = "items"
    /\ Len(LookupCall(i).body.items) >= 1
    /\ Len(LookupCall(i).body.items[1].images) >= 1

\* the image the search of genre i resolved: the first image of its first
\* result, null when it failed or found none
OwnImage(i) ==
    IF LookupFoundImage(i) THEN JStr(LookupCall(i).body.items[1].images[1]) ELSE JNull

\* the generated elements that are objects, and the place of the i-th
\* generated element among them
KeptGenres == {i \in DOMAIN lookups : aiGenres.a[i].t = "obj"}
Place(i) == Cardinality({j \in KeptGenres : j <= i})

Recommendations == responses[1].body.aiRecommendations

(***************************************************************************)
(* C12: per-item isolation.  When the image search of exactly one genre    *)
(* fails and the searches of the other genres succeed with an image, the   *)
(* request succeeds, the failing genre has imageUrl = null and every other *)
(* genre has the image its own search resolved.                            *)
(***************************************************************************)
OneLookupFailed ==
    /\ Done
    /\ Cardinality(WithLookup) >= 2
    /\ Cardinality({i \in WithLookup : LookupFailed(i)}) = 1
    /\ \A i \in WithLookup : LookupFailed(i) \/ LookupFoundImage(i)

C12_EnrichmentIsolation ==
    OneLookupFailed =>
        /\ AnsweredWithPayload
        /\ \A i \in WithLookup :
            /\ Place(i) \in DOMAIN Recommendations
            /\ Recommendations[Place(i)].name = aiGenres.a[i].name
            /\ Recommendations[Place(i)].imageUrl =
                 (IF LookupFailed(i) THEN JNull
                  ELSE JStr(LookupCall(i).body.items[1].images[1]))

\* the search for the first genre failed with 401, the second found an image
C12_Witness ==
    /\ OneLookupFailed
    /\ WithLookup = {1, 2}
    /\ LookupFailed(1)
    /\ LookupCall(1).code = 401
    /\ Len(Recommendations) = 2
    /\ Recommendations[1].imageUrl = JNull
    /\ Recommendations[2].imageUrl = JStr("img_a1")

\* entry e is genre g with the imageUrl field added and nothing else changed
IsEnriched(e, g) ==
    /\ DOMAIN e = DOMAIN g \cup {"imageUrl"}
    /\ \A f \in DOMAIN g : e[f] = g[f]

(***************************************************************************)
(* C13, as stated: for any genres array returned by the model,             *)
(* aiRecommendations has exactly one entry per element of the array, in    *)
(* the same order, with only imageUrl added; no element is dropped or      *)
(* inserted.                                                               *)
(***************************************************************************)
C13_OneEntryPerElement ==
    (AnsweredWithPayload /\ IsArray(aiGenres)) =>
        /\ Len(Recommendations) = Len(aiGenres.a)
        /\ \A i \in DOMAIN Recommendations :
              IsEnriched(Recommendations[i], aiGenres.a[i])

(***************************************************************************)
(* C13, amended: aiRecommendations has exactly one entry per element of    *)
(* the genres array that is a non-null object, in the same order, with     *)
(* only imageUrl added; elements that are null or not objects are dropped, *)
(* nothing is inserted and the list is neither truncated nor padded.       *)
(***************************************************************************)
C13_OneEntryPerObject ==
    (AnsweredWithPayload /\ IsArray(aiGenres)) =>
        /\ DOMAIN lookups = DOMAIN aiGenres.a
        /\ Len(Recommendations) = Cardinality(KeptGenres)
        /\ \A i \in KeptGenres :
              IsEnriched(Recommendations[Place(i)], aiGenres.a[i])

\* a null element was dropped and the object after it kept
C13_Witness ==
    /\ AnsweredWithPayload
    /\ IsArray(aiGenres)
    /\ Len(aiGenres.a) = 2
    /\ aiGenres.a[1] = JNull
    /\ aiGenres.a[2].t = "obj"
    /\ Len(Recommendations) = 1
    /\ Recommendations[1].name = aiGenres.a[2].name

C14_WitnessTrackPath ==
    /\ AnsweredWithPayload
    /\ TrackSearchHit
    /\ calls[2].op = "getArtist"
    /\ calls[2].body = ArtistRecord("a1")
    /\ responses[1].body.searchedArtist.name = "Daft Punk"

(***************************************************************************)
(* C15 as stated: for every completion order of the image lookups, the     *)
(* i-th entry of aiRecommendations is the i-th generated genre, with the   *)
(* image resolved for that genre's own first artist.                       *)
(***************************************************************************)
C15_IthEntryIsIthGenre ==
    (AnsweredWithPayload /\ IsArray(aiGenres)) =>
        \A i \in DOMAIN aiGenres.a :
            /\ i \in DOMAIN Recommendations
            /\ aiGenres.a[i].t = "obj"
            /\ Recommendations[i].name = aiGenres.a[i].name
            /\ Recommendations[i].imageUrl =
                 (IF i \in WithLookup THEN OwnImage(i) ELSE JNull)

(***************************************************************************)
(* C15 amended: for every completion order of the image lookups, the       *)
(* entries of aiRecommendations are the generated genres that are objects, *)
(* in their input order, each with the image its own lookup resolved       *)
(* (null when the genre had no lookup or the lookup failed or was empty).  *)
(***************************************************************************)
C15_EnrichmentPreservesOrder ==
    (AnsweredWithPayload /\ IsArray(aiGenres)) =>
        \A i \in KeptGenres :
            /\ Place(i) \in DOMAIN Recommendations
            /\ Recommendations[Place(i)].name = aiGenres.a[i].name
            /\ Recommendations[Place(i)].imageUrl =
                 (IF i \in WithLookup THEN OwnImage(i) ELSE JNull)

\* the second lookup settled before the first, and the two images differ
C15_Witness ==
    /\ AnsweredWithPayload
    /\ reordered
    /\ WithLookup = {1, 2}
    /\ aiGenres.a[1].name # aiGenres.a[2].name
    /\ OwnImage(1) = JStr("img_a1")
    /\ OwnImage(2) = JNull
    /\ Recommendations[1].imageUrl = JStr("img_a1")
    /\ Recommendations[2].imageUrl = JNull

(***************************************************************************)
(* C16: when the top-track call returned n tracks, topTracks has           *)
(* min(5, n) entries, at most 5, and its k-th entry is the projection of   *)
(* the k-th returned track: the catalog's order, no re-ranking.  The       *)
(* success response carries that list.                                     *)
(***************************************************************************)
TopTrackReturned == {i \in StageCalls("top") : calls[i].st = "ok"}

C16_TopTracksFirstFive ==
    \A i \in TopTrackReturned :
        LET returned == calls[i].body.tracks
        IN  /\ Len(topTracks) <= 5
            /\ Len(topTracks) = Min(5, Len(returned))
            /\ \A k \in DOMAIN topTracks :
                /\ topTracks[k].name = returned[k].name
                /\ topTracks[k].url = returned[k].spotify
                /\ topTracks[k].preview_url = returned[k].preview_url
            /\ AnsweredWithPayload => responses[1].body.topTracks = topTracks

\* the catalog returned more than five tracks and the response has five
C16_Witness ==
    /\ AnsweredWithPayload
    /\ \E i \in TopTrackReturned : Len(calls[i].body.tracks) > 5
    /\ Len(responses[1].body.topTracks) = 5

\* the catalog returned fewer than five tracks and the response has them all
C16_WitnessShort ==
    /\ AnsweredWithPayload
    /\ \E i \in TopTrackReturned : Len(calls[i].body.tracks) = 3
    /\ Len(responses[1].body.topTracks) = 3

(***************************************************************************)
(* Lines 133-325 read as one function of the request and of the upstream   *)
(* results: what the handler answers when its calls, numbered in issue     *)
(* order, get the results of log.  Nothing else is read.                   *)
(***************************************************************************)
ResultOf(c) == IF c.st = "ok" THEN Ok(c.body) ELSE Err(c.code)

EnrichedWith(genres, log, base) ==
    DropNulls([i \in 1..Len(genres) |->
        IF ~IsGenreObject(genres[i]) THEN JNull
        ELSE IF NeedsLookup(genres[i])
        THEN WithImage(genres[i],
                       ImageAfterLookup(ResultOf(log[base + LookupRank(genres, i)])))
        ELSE WithImage(genres[i], JNull)])

OutcomeOf(q, tok, log) ==
    LET v == ValidateRequest(q, tok) IN
    IF ~v.accept THEN v.response
    ELSE IF ~ResultOf(log[1]).ok THEN SearchErrorResponse(ResultOf(log[1]))
    ELSE IF ~ResultOf(log[2]).ok THEN SearchErrorResponse(ResultOf(log[2]))
    ELSE LET a == IF TrackFound(log[1].body) THEN log[2].body
                  ELSE ArtistFromSearch(log[2].body)
         IN
         IF ArtistMissing(a) THEN NotFound
         ELSE LET tracks == TopTracksAfter(ResultOf(log[3]))
                  genres == GenerationOutput(ResultOf(log[4]))
              IN
              IF IsArray(MapTarget(genres))
              THEN SuccessResponse(
                       ResponseData(a, tracks, EnrichedWith(MapTarget(genres).a, log, 4)))
              ELSE LET fb == EnrichFallback(genres) IN
                   IF fb.ok
                   THEN SuccessResponse(ResponseData(a, tracks, fb.value))
                   ELSE FatalResponse(fb.error)

(***************************************************************************)
(* C17: the outcome of a request is determined by its query, its           *)
(* accessToken and the upstream results of its calls: whatever the order   *)
(* in which the image searches settle and whatever other requests do to    *)
(* the process-wide client meanwhile, the one response is OutcomeOf of     *)
(* these, and every catalog call carries the request's own token.  Two     *)
(* invocations that agree on these therefore answer the same.              *)
(***************************************************************************)
C17_Deterministic ==
    /\ \A i \in CatalogCalls : calls[i].token = accessToken
    /\ Done => responses = <<OutcomeOf(query, accessToken, calls)>>

\* the second image search settled first, the two searches found different
\* images, and a refresh request holds the process-wide client at the end
C17_Witness ==
    /\ AnsweredWithPayload
    /\ reordered
    /\ spotifyApi # ""
    /\ WithLookup = {1, 2}
    /\ OwnImage(1) # OwnImage(2)

(***************************************************************************)
(* C18: an error that escapes the guards of the stages reaches the outer   *)
(* catch, and the request is then answered exactly once, with the generic  *)
(* message and the status 500 (the error carries no status of its own): no *)
(* upstream detail, no payload.  The error that escapes is the TypeError   *)
(* of the enrichment fallback on a genres value that is not an array.      *)
(***************************************************************************)
EscapedToTopLevel == GenerationSettled /\ ~IsArray(MapTarget(aiGenres))

C18_TopLevelGenericError ==
    (Done /\ EscapedToTopLevel) =>
        /\ Len(responses) = 1
        /\ responses[1] = [status |-> 500, error |-> "An unexpected server error occurred."]

\* genres was the string "rock": a 500 with the generic message
C18_Witness ==
    /\ Done
    /\ aiGenres = JStr("rock")
    /\ Len(responses) = 1
    /\ responses[1].status = 500
    /\ responses[1].error = "An unexpected server error occurred."

(***************************************************************************)
(* C19, as stated: if the concurrent-await step of the enrichment stage    *)
(* throws, the request does not fail: it is answered with a success whose  *)
(* aiRecommendations carries imageUrl = null on every entry.  The step     *)
(* throws when the value it maps over is not an array.                     *)
(***************************************************************************)
EnrichmentThrew ==
    /\ GenerationSettled
    /\ StageCalls("enrich") = {}
    /\ ~IsArray(MapTarget(aiGenres))

C19_EnrichmentFallback ==
    (Done /\ EnrichmentThrew) =>
        /\ AnsweredWithPayload
        /\ \A k \in DOMAIN Recommendations : Recommendations[k].imageUrl = JNull

(***************************************************************************)
(* C20: stage ordering within one request.  The top-track lookup is issued *)
(* only after the resolution calls have succeeded and produced an artist;  *)
(* the generative call only after the top-track lookup has settled; every  *)
(* image search only after the generative call has settled; the success    *)
(* response only after every image search has settled.  Calls of a later   *)
(* stage come later in the log.                                            *)
(***************************************************************************)
IsSettled(i) == calls[i].st # "pending"

StageRank(stage) ==
    CASE stage = "resolve" -> 1
      [] stage = "top" -> 2
      [] stage = "generate" -> 3
      [] stage = "enrich" -> 4

\* the log starts with resolution; the call after a call is of the same stage
\* or of the next one; a call issued while an earlier call is pending is of
\* that call's stage.  Hence a stage has calls only after calls of the stage
\* before it, all of them settled.
C20_StageOrdering ==
    /\ \A i \in DOMAIN calls :
        /\ i = 1 => calls[i].stage = "resolve"
        /\ i > 1 =>
            /\ StageRank(calls[i].stage) - StageRank(calls[i - 1].stage) \in {0, 1}
            /\ \A j \in 1..(i - 1) :
                  IsSettled(j) \/ calls[j].stage = calls[i].stage
        /\ calls[i].stage = "top" =>
              (Truthy(artist) /\ \A j \in 1..(i - 1) : calls[j].st = "ok")
    /\ (Done /\ Len(responses) >= 1 /\ responses[1].status = 200) =>
          /\ calls[Len(calls)].stage \in {"generate", "enrich"}
          /\ \A i \in DOMAIN calls : IsSettled(i)

\* a success after all four stages made calls, two of them image searches
C20_Witness ==
    /\ AnsweredWithPayload
    /\ Cardinality(StageCalls("resolve")) = 2
    /\ Cardinality(StageCalls("top")) = 1
    /\ Cardinality(StageCalls("generate")) = 1
    /\ Cardinality(StageCalls("enrich")) = 2

(***************************************************************************)
(* C21: fan-out and join.  From the moment the enrichment stage has        *)
(* started, one image search has been issued for every generated genre     *)
(* that names a first artist, so all of them are issued before any has     *)
(* settled; and a success response is sent only when every image search    *)
(* has settled, by a result or by an error.                                *)
(***************************************************************************)
HasNamedFirstArtist(g) ==
    /\ g.t = "obj"
    /\ "artists" \in DOMAIN g
    /\ Len(g.artists) >= 1
    /\ g.artists[1].artistName # ""

C21_FanOutJoin ==
    /\ (pc = "enrich" \/ AnsweredWithPayload) =>
          Cardinality(StageCalls("enrich")) =
              Cardinality({i \in DOMAIN aiGenres.a : HasNamedFirstArtist(aiGenres.a[i])})
    /\ (Len(responses) >= 1 /\ responses[1].status = 200) =>
          /\ \A i \in StageCalls("enrich") : calls[i].st \in {"ok", "error"}
          /\ \A i \in DOMAIN lookups : lookups[i].st = "settled"

\* both image searches were outstanding together, and the success was sent
\* after one of them had failed and the other had answered
C21_Witness ==
    /\ AnsweredWithPayload
    /\ Cardinality(StageCalls("enrich")) = 2
    /\ \E i, j \in StageCalls("enrich") : calls[i].st = "error" /\ calls[j].st = "ok"

(***************************************************************************)
(* C22, as stated: no handler writes state shared between requests; the    *)
(* process-wide client is read-only after initialization, so it does not   *)
(* change while a request is in flight.                                    *)
(***************************************************************************)
RefreshInFlight == \E r \in RefreshIds : refresh[r].pc = "upstream"

C22_SharedClientReadOnly ==
    [][RefreshInFlight => spotifyApi' = spotifyApi]_vars

(***************************************************************************)
(* C24: under any interleaving of refresh requests, the upstream call made *)
(* for a request carries that request's own refresh token, and the access  *)
(* token returned to the caller is the one the upstream issued for that    *)
(* refresh token.                                                          *)
(***************************************************************************)
C24_RefreshOwnToken ==
    \A r \in RefreshIds :
        /\ refresh[r].pc \in {"upstream", "done"} /\ refresh[r].refreshToken # "" =>
              refresh[r].sent = refresh[r].refreshToken
        /\ refresh[r].pc = "done" /\ refresh[r].response.status = 200 =>
              /\ refresh[r].refreshToken # ""
              /\ refresh[r].response.accessToken.for = refresh[r].refreshToken

\* request 2 arrived with another token while request 1 was in flight;
\* request 1 got its own access token and cleared the shared client under
\* request 2, which is still waiting
C24_Witness ==
    /\ refresh[1].pc = "done"
    /\ refresh[1].refreshToken = "rt1"
    /\ refresh[1].response.status = 200
    /\ refresh[1].response.accessToken = AccessTokenFor("rt1")
    /\ refresh[2].pc = "upstream"
    /\ refresh[2].refreshToken = "rt2"
    /\ spotifyApi = ""

(***************************************************************************)
(* C25: the prompt sent to the generative model always tells it not to     *)
(* recommend the resolved artist, by that artist's name; it carries the    *)
(* genre-exclusion clause exactly when the resolved artist has at least    *)
(* one genre, and the clause then lists all of the artist's genres.        *)
(***************************************************************************)
ResolvedRecord ==
    IF TrackSearchHit THEN calls[2].body ELSE calls[2].body.items[1]

C25_PromptExclusions ==
    \A i \in StageCalls("generate") :
        LET prompt == calls[i].arg IN
        /\ prompt.excludedArtist = ResolvedRecord.name
        /\ prompt.subject = ResolvedRecord.name
        /\ prompt.hasGenreClause <=> Len(ResolvedRecord.genres) >= 1
        /\ prompt.excludedGenres = ResolvedRecord.genres

\* Daft Punk has two genres: the clause is there and lists both
C25_Witness ==
    /\ StageCalls("generate") # {}
    /\ ResolvedRecord.name = "Daft Punk"
    /\ \E i \in StageCalls("generate") :
        /\ calls[i].arg.hasGenreClause
        /\ calls[i].arg.excludedGenres = <<"electronic", "house">>
        /\ calls[i].arg.excludedArtist = "Daft Punk"

\* Punk Daft has no genre: no clause, the artist is still excluded
C25_WitnessNoGenres ==
    /\ StageCalls("generate") # {}
    /\ ResolvedRecord.genres = <<>>
    /\ \E i \in StageCalls("generate") :
        /\ ~calls[i].arg.hasGenreClause
        /\ calls[i].arg.excludedArtist = "Punk Daft"

(***************************************************************************)
(* Vocabulary for the save-playlist request.                               *)
(***************************************************************************)
SaveDone == savePc = "done"
AddCalls == {k \in DOMAIN saveCalls : saveCalls[k].op = "addTracksToPlaylist"}
CreateCalls == {k \in DOMAIN saveCalls : saveCalls[k].op = "createPlaylist"}
SaveFailed == \E k \in DOMAIN saveCalls : saveCalls[k].st = "error"
SaveAnswered200 == Len(saveResponses) = 1 /\ saveResponses[1].status = 200

\* the uris of the usable ids of the request, in input order
UsableIds ==
    IF saveBody.trackIds.t = "arr"
    THEN SelectSeq(saveBody.trackIds.a, LAMBDA x : x.t = "str" /\ "id" \in DOMAIN x)
    ELSE <<>>
ExpectedUris == [k \in DOMAIN UsableIds |-> [uri |-> "spotify:track", id |-> UsableIds[k].id]]

\* the chunks of the add-tracks calls, concatenated in call order
RECURSIVE SentUris(_)
SentUris(log) ==
    IF log = <<>> THEN <<>>
    ELSE IF Head(log).op = "addTracksToPlaylist"
    THEN Head(log).arg.chunk \o SentUris(Tail(log))
    ELSE SentUris(Tail(log))

(***************************************************************************)
(* C26: playlist batching.  Every add-tracks call carries between 1 and    *)
(* 100 uris; a call is issued only when the call before it has succeeded;  *)
(* the chunks sent so far, concatenated in call order, are a prefix of the *)
(* uris of the usable ids in input order, and all of them once the success *)
(* is answered; with no usable id no add-tracks call is made.              *)
(***************************************************************************)
C26_PlaylistBatching ==
    LET sent == SentUris(saveCalls) IN
    /\ \A k \in AddCalls :
          Len(saveCalls[k].arg.chunk) >= 1 /\ Len(saveCalls[k].arg.chunk) <= 100
    /\ \A k \in DOMAIN saveCalls : k < Len(saveCalls) => saveCalls[k].st = "ok"
    /\ Len(sent) <= Len(ExpectedUris)
    /\ sent = SubSeq(ExpectedUris, 1, Len(sent))
    /\ SaveAnswered200 => sent = ExpectedUris
    /\ ExpectedUris = <<>> => AddCalls = {}

\* 201 usable ids went out as chunks of 100, 100 and 1
C26_Witness ==
    /\ SaveAnswered200
    /\ Len(ExpectedUris) = MaxTrackIds
    /\ Cardinality(AddCalls) = 3
    /\ Len(saveCalls[2].arg.chunk) = 100
    /\ Len(saveCalls[4].arg.chunk) = MaxTrackIds - 200

\* every third element was unusable: the others went out in order
C26_WitnessFiltered ==
    /\ SaveAnswered200
    /\ IsArray(saveBody.trackIds)
    /\ Len(saveBody.trackIds.a) = MaxTrackIds
    /\ Len(ExpectedUris) < MaxTrackIds
    /\ Cardinality(AddCalls) = 2
    /\ saveCalls[3].arg.chunk[1].id = 151

\* no element was usable: the playlist was created and nothing added
C26_WitnessNoValid ==
    /\ SaveAnswered200
    /\ IsArray(saveBody.trackIds)
    /\ Len(saveBody.trackIds.a) = 2
    /\ ExpectedUris = <<>>
    /\ AddCalls = {}

(***************************************************************************)
(* C27, as stated: when the playlist creation or an add-tracks call fails, *)
(* the save-playlist request is answered with an error response that       *)
(* forwards the failure: 401 for an expired token, otherwise the upstream  *)
(* status or 500.  It is never left without a response and never answered  *)
(* with success.                                                           *)
(***************************************************************************)
FailedSaveCall == CHOOSE k \in DOMAIN saveCalls : saveCalls[k].st = "error"

C27_SaveErrorForwarded ==
    (SaveDone /\ SaveFailed) =>
        /\ Len(saveResponses) = 1
        /\ saveResponses[1].status # 200
        /\ saveResponses[1].status =
             (IF saveCalls[FailedSaveCall].code = NoStatus THEN 500
              ELSE saveCalls[FailedSaveCall].code)

(***************************************************************************)
(* C28, as stated: a save-playlist request that lacks accessToken,         *)
(* trackIds or artistName is rejected with HTTP 400 before any upstream    *)
(* call: no playlist is created and no track is added for it.              *)
(***************************************************************************)
SaveReceived == savePc # "idle"

C28_SaveMissingParams ==
    (SaveReceived /\ SaveParamsMissing(saveBody)) =>
        /\ saveCalls = <<>>
        /\ saveResponses = <<[status |-> 400, error |-> "Missing required parameters."]>>

(***************************************************************************)
(* C23: token scoping.  Under every interleaving of a recommend-genres     *)
(* request and a save-playlist request, each catalog call carries the      *)
(* token of the request it was issued for, and each response is determined *)
(* by that request's own inputs and the answers to its own calls: the      *)
(* recommend-genres response is OutcomeOf of them, the save-playlist       *)
(* success carries the url of the playlist its own call created.           *)
(***************************************************************************)
C23_TokenScoping ==
    /\ \A i \in CatalogCalls : calls[i].token = accessToken
    /\ \A k \in DOMAIN saveCalls : saveCalls[k].token = saveBody.accessToken
    /\ Done => responses = <<OutcomeOf(query, accessToken, calls)>>
    /\ \A k \in DOMAIN saveResponses :
          saveResponses[k].status = 200 =>
              saveResponses[k].playlistUrl = saveCalls[1].body.external_urls.spotify

\* both requests were in flight together with different tokens, and both
\* have been answered
C23_Witness ==
    /\ AnsweredWithPayload
    /\ SaveAnswered200
    /\ accessToken = JStr("tokA")
    /\ saveBody.accessToken = JStr("tokB")
    /\ Cardinality(StageCalls("enrich")) >= 1
    /\ AddCalls # {}

(***************************************************************************)
(* C29: exactly one response.  When every upstream call settles, a         *)
(* recommend-genres request that was received is eventually answered, and  *)
(* at no time has it more than one response: from the answer on it has     *)
(* exactly one.                                                            *)
(***************************************************************************)
C29_ExactlyOneResponse ==
    /\ [](Len(responses) <= 1)
    /\ Received ~> [](Len(responses) = 1)

\* a request that went through every stage, image searches included, and
\* was answered
C29_Witness ==
    /\ Done
    /\ Len(responses) = 1
    /\ Cardinality(StageCalls("enrich")) >= 2
    /\ \A i \in DOMAIN calls : calls[i].st # "pending"

(***************************************************************************)
(* C30: no retries.  Within one request the track search is issued at most *)
(* once, at most one of get-artist and the artist search of the resolution *)
(* is issued, the top-track lookup and the generative call are issued at   *)
(* most once each, the image searches are at most one per generated genre  *)
(* and none for a genre without a named first artist; in all at most 4     *)
(* plus the number of generated genres.                                    *)
(***************************************************************************)
GeneratedGenres == IF IsArray(aiGenres) THEN aiGenres.a ELSE <<>>

\* the generated genres that name their first artist, and the image
\* searches of the request, both in order
NamedGenres == SelectSeq(GeneratedGenres, HasNamedFirstArtist)
IsImageSearch(c) == c.stage = "enrich"
ImageSearches == SelectSeq(calls, IsImageSearch)

\* the image searches are matched one to one with genres that name their
\* first artist, each search asking for the name of its genre
ImageSearchesMatchGenres ==
    /\ Len(ImageSearches) <= Len(NamedGenres)
    /\ \A k \in DOMAIN ImageSearches :
          ImageSearches[k].arg = JStr(NamedGenres[k].artists[1].artistName)

C30_NoRetries ==
    /\ Cardinality(CallsWhere("resolve", "searchTracks")) <= 1
    /\ Cardinality(CallsWhere("resolve", "getArtist"))
         + Cardinality(CallsWhere("resolve", "searchArtists")) <= 1
    /\ Cardinality(StageCalls("resolve")) <= 2
    /\ Cardinality(StageCalls("top")) <= 1
    /\ Cardinality(StageCalls("generate")) <= 1
    /\ ImageSearchesMatchGenres
    /\ Len(calls) <= 4 + Len(GeneratedGenres)

\* a request that made every call it can make: track search, get-artist,
\* top tracks, the generative call and one image search per genre
C30_Witness ==
    /\ Done
    /\ CallsWhere("resolve", "getArtist") # {}
    /\ Len(GeneratedGenres) = MaxGenres
    /\ Len(calls) = 4 + MaxGenres

\* a failed call was not repeated, and a genre without a named first artist
\* got no image search
C30_WitnessFewer ==
    /\ Done
    /\ Len(GeneratedGenres) = MaxGenres
    /\ Len(NamedGenres) < MaxGenres
    /\ \E i \in DOMAIN calls : calls[i].st = "error"
    /\ Len(calls) < 4 + MaxGenres
====
